---------------------------- MODULE Spec2Model ----------------------------
(***************************************************************************)
(* One world of the hide-and-seek simulation (namespace GPUHideSeek).      *)
(*                                                                         *)
(* The state is the per-world Sim object, the WorldReset singleton, the    *)
(* exported AgentInterface columns and the components of the live physics *)
(* entities.  One step of the host (Manager::step) runs the Step task      *)
(* graph: movementSystem, actionSystem, the physics step,                  *)
(* outputRewardsDonesSystem, resetSystem and the observation systems, each *)
(* of the per-agent systems once per AgentInterface entity of the world.   *)
(*                                                                         *)
(* What the physics library decides from poses (the entity a ray hits,     *)
(* whether an entity is in line of sight, whether an agent has left the    *)
(* arena) is a nondeterministic choice made where the code asks for it.    *)
(***************************************************************************)
EXTENDS Integers, Sequences, FiniteSets, TLC

---------------------------------------------------------------------------
(* Program constants.                                                      *)

numPrepSteps == 96
episodeLen == 240
maxBoxes == 9
maxRamps == 2
maxAgents == 16
\* Entity hiders[3] and Entity seekers[3] of Sim.
teamCapacity == 3
max_rejections == 20
RandMod == 1009
discrete_action_buckets == 11
move_discrete_action_max == 60
turn_discrete_action_max == 15
boundaryPenalty == 10

half_buckets == discrete_action_buckets \div 2
move_delta_per_bucket == move_discrete_action_max \div half_buckets
turn_delta_per_bucket == turn_discrete_action_max \div half_buckets

(* Bounds of the model.                                                    *)

\* resets that advance curWorldEpisode: the counter is capped here
MaxEpisodes == 3
\* curEpisodeStep is capped here when IgnoreEpisodeLength is set
MaxSteps == 98
\* wall entities that populateStaticGeometry creates
NumWalls == 1
\* ticks the host lets an episode run when it walks through the levels
LevelSteps == 2
\* cells of the arena in which the generator places objects
NumCells == 8
\* base random keys (Config::initRandKey) a world is built with
NumRandKeys == 4

---------------------------------------------------------------------------
(* Values.                                                                 *)

NoneE == 0                      \* Entity::none()

Seeker == "Seeker"              \* AgentType, and OwnerTeam of the same name
Hider == "Hider"
OwnerNone == "None"
Unownable == "Unownable"
Static == "Static"              \* ResponseType
Dynamic == "Dynamic"

NeutralAction == [x |-> 5, y |-> 5, r |-> 5, g |-> 0, l |-> 0]
ZeroForce == <<0, 0>>

\* Relative observation records: the zero record, and the record describing
\* entity e (boxes carry their extents, which are never zero).
ZeroObs == [about |-> NoneE, boxSize |-> <<0, 0>>]
ObsOf(e, size) == [about |-> e, boxSize |-> size]

ElongatedSize == <<80, 15>>     \* { 8, 1.5 }, in tenths
CubeSize == <<20, 20>>          \* { 2, 2 }

Min(a, b) == IF a < b THEN a ELSE b

SeqToSet(s) == { s[k] : k \in DOMAIN s }

---------------------------------------------------------------------------
VARIABLES
    pc,               \* the task-graph node of the step that runs next
    todo,             \* AgentInterface slots the running node has yet to visit
    cfg,              \* Config: simFlags, team-size ranges, execution mode
    resetLevel,       \* WorldReset singleton, written by the host
    curEpisodeStep,
    curWorldEpisode,
    hiderTeamReward,
    counts,           \* numObstacles, numActiveBoxes, ... of Sim
    tables,           \* obstacles, boxes, boxSizes, ramps, hiders, seekers
    iface,            \* slot -> the AgentInterface columns
    ent,              \* live entity -> its components
    badSlot,          \* makeAgent indexed agentInterfaces past the allocated slots
    genLevel,         \* level id of the last generateEnvironment call
    ray,              \* the last actionSystem invocation: its agent slot, the
                      \* action bits it read and the entity its ray hit
    gen,              \* the episode RNG and the frame of
                      \* generateTrainingEnvironment while it places objects
    frame,            \* the actionSystem invocations under way (SpecRace)
    rnd,              \* world index, checkpoint singletons and the installed episode key
    seen,             \* the entities the last visibility pass found visible
    globalPositions   \* the GlobalDebugPositions singleton

vars == <<pc, todo, cfg, resetLevel, curEpisodeStep, curWorldEpisode,
          hiderTeamReward, counts, tables, iface, ent, badSlot, genLevel, ray, gen, frame, rnd, seen, globalPositions>>

NoRay == [by |-> 0 - 1, l |-> 0, g |-> 0, hit |-> NoneE]

\* No episode key is installed yet.
NoKey == <<0 - 1, 0 - 1>>

\* World w after construction: LoadCheckpoint.load is 0, no key is installed.
\* issued collects the keys that resets without checkpoint load and without
\* fixed world have installed.
NoRnd(w) == [worldID |-> w, load |-> 0, initRNDCounter |-> NoKey,
             curEpisodeRNDCounter |-> NoKey, issued |-> {}]

\* The snapshot before its system has run.  A position is written as the
\* entity it is the position of, (0, 0) as NoneE; at is the step of the
\* episode in which the system last ran.
NoPositions ==
    [boxPositions |-> [k \in 0 .. (maxBoxes - 1) |-> NoneE],
     rampPositions |-> [k \in 0 .. (maxRamps - 1) |-> NoneE],
     agentPositions |-> [k \in 0 .. (maxAgents - 1) |-> NoneE],
     at |-> <<0 - 1, 0 - 1>>]

\* No actionSystem invocation is under way.
NoFrame == [reads |-> <<>>, ent0 |-> <<>>, act0 |-> <<>>]

\* The generator before the first episode of a world whose base key is k0.
NoGen(k0) ==
    [initRandKey |-> k0, key |-> 0, n |-> 0,
     num_hiders |-> 0, num_seekers |-> 0, total_num_boxes |-> 0, num_elongated |-> 0,
     all_entities |-> <<>>, placed |-> <<>>, rejections |-> 0, episodes |-> <<>>]

maxAgentsPerWorld == cfg.maxHiders + cfg.maxSeekers
Slots == 0 .. (maxAgentsPerWorld - 1)

---------------------------------------------------------------------------
(* Entities and their components.                                          *)

\* DynamicObject archetype, as makeDynObject fills it.
makeDynObject(obj_id, response_type, owner_team) ==
    [arch |-> "DynamicObject", obj |-> obj_id, rt |-> response_type,
     owner |-> owner_team, force |-> ZeroForce, torque |-> 0,
     grab |-> NoneE, outside |-> FALSE, a |-> NoneE, b |-> NoneE]

\* Default arguments of makeDynObject (declared in geo_gen.hpp).
makeDynObjectDefault(obj_id) == makeDynObject(obj_id, Dynamic, OwnerNone)

makePlane == makeDynObject("Plane", Static, Unownable)

\* DynAgent archetype, as the makeDynAgent lambdas fill it.
makeDynAgent ==
    [arch |-> "DynAgent", obj |-> "Agent", rt |-> Dynamic,
     owner |-> Unownable, force |-> ZeroForce, torque |-> 0,
     grab |-> NoneE, outside |-> FALSE, a |-> NoneE, b |-> NoneE]

\* The constraint entity PhysicsSystem::makeFixedJoint returns.
makeFixedJoint(agent, other) ==
    [arch |-> "Joint", obj |-> "Joint", rt |-> Static, owner |-> Unownable,
     force |-> ZeroForce, torque |-> 0, grab |-> NoneE, outside |-> FALSE,
     a |-> agent, b |-> other]

\* Entities registered with the physics broadphase: what a ray can hit.
Bodies(E) == { e \in DOMAIN E : E[e].arch # "Joint" }

\* The n-th (1-based) entity handle not in use.
FreeId(used, n) ==
    LET pool == (1 .. (Cardinality(used) + n)) \ used
    IN  CHOOSE i \in pool : Cardinality({ j \in pool : j < i }) = n - 1

\* E with the records of seq added under fresh handles, in order.
AddEntities(E, recs) ==
    LET used == DOMAIN E
        ids == [k \in DOMAIN recs |-> FreeId(used, k)]
    IN  [e \in used \cup SeqToSet(ids) |->
            IF e \in used THEN E[e]
            ELSE recs[CHOOSE k \in DOMAIN recs : ids[k] = e]]

NewIds(E, n) == [k \in 1 .. n |-> FreeId(DOMAIN E, k)]

Remove(E, gone) == [e \in (DOMAIN E) \ gone |-> E[e]]

---------------------------------------------------------------------------
(* Level generation (level_gen.cpp).                                       *)

\* RNG::sampleI32(a, b): an integer of [a, b).  Nothing says what a call
\* with an empty range returns: a, or an integer next to it.
sampleI32(a, b) == IF a < b THEN a .. (b - 1) ELSE {a - 1, a, a + 1}

\* populateStaticGeometry: the walls of the arena, entered into all_entities.
populateStaticGeometry == [k \in 1 .. NumWalls |-> makeDynObject("Wall", Static, Unownable)]

\* The DynamicObject entities a level creates before its agents, in order.
ObjectsBeforeAgents(level, num_elongated, num_cubes) ==
    CASE level = 1 ->
            populateStaticGeometry
            \o [k \in 1 .. num_elongated |-> makeDynObjectDefault("Box")]
            \o [k \in 1 .. num_cubes |-> makeDynObjectDefault("Cube")]
            \o [k \in 1 .. maxRamps |-> makeDynObjectDefault("Ramp")]
      [] level \in {2, 3} -> <<makeDynObjectDefault("Cube"), makePlane>>
      [] level = 4 -> <<makeDynObject("Box", Dynamic, OwnerNone), makePlane>>
      [] level = 5 -> <<makePlane>>
      [] level = 6 -> <<makePlane, makeDynObject("Wall", Static, Unownable),
                        makeDynObject("Cube", Dynamic, OwnerNone)>>
      [] level = 7 -> <<makeDynObjectDefault("Cube"),
                        makeDynObject("Cube", Dynamic, OwnerNone),
                        makePlane, makePlane, makePlane>>
      [] level = 8 -> <<makeDynObjectDefault("Ramp"),
                        makeDynObject("Ramp", Static, OwnerNone),
                        makePlane, makePlane, makePlane>>
      [] OTHER -> <<>>

\* ... and after them (the floor plane of the training level).
ObjectsAfterAgents(level) == IF level = 1 THEN <<makePlane>> ELSE <<>>

\* The agents a level creates, in makeAgent order.
LevelAgents(level, num_hiders, num_seekers) ==
    CASE level = 1 ->
            [k \in 1 .. num_hiders |-> Hider] \o [k \in 1 .. num_seekers |-> Seeker]
      [] level = 5 -> <<Hider>>
      [] level = 6 -> <<Hider, Seeker>>
      [] OTHER -> <<>>

\* What the level stores into numObstacles; level5 and an unknown level id
\* store nothing, which leaves the 0 of resetEnvironment.
StoredNumObstacles(level, before, after) ==
    IF level \in {1, 2, 3, 4, 6, 7, 8} THEN Len(before) + Len(after) ELSE 0

\* makeAgent for the k-th agent of the level (numActiveAgents is k - 1 when
\* it is called): the interface columns it writes.
makeAgent(row, agent_type, agent) ==
    [row EXCEPT !.agentType = agent_type, !.simE = agent, !.mask = 1,
                !.action = NeutralAction]

\* The tail loop of generateEnvironment for a slot past numActiveAgents.
deactivate(row) == [row EXCEPT !.simE = NoneE, !.mask = 0]

\* generateEnvironment on the entities E and interface rows I that
\* resetEnvironment left: the new entities, tables, counts and rows.
generateEnvironment(E, I, level, num_hiders, num_seekers, total_num_boxes, num_elongated) ==
    LET num_cubes == total_num_boxes - num_elongated
        num_boxes == num_elongated + (IF num_cubes > 0 THEN num_cubes ELSE 0)
        before == ObjectsBeforeAgents(level, num_elongated, num_cubes)
        types == LevelAgents(level, num_hiders, num_seekers)
        after == ObjectsAfterAgents(level)
        nb == Len(before)
        na == Len(types)
        recs == before \o [k \in 1 .. na |-> makeDynAgent] \o after
        ids == NewIds(E, Len(recs))
        agentId(k) == ids[nb + k]
        boxIds == IF level = 1
                  THEN [k \in 1 .. num_boxes |-> ids[NumWalls + k]]
                  ELSE <<>>
        rampIds == IF level = 1
                   THEN [k \in 1 .. maxRamps |-> ids[NumWalls + num_boxes + k]]
                   ELSE <<>>
        isType(t) == { k \in 1 .. na : types[k] = t }
        ofType(t) == [n \in 1 .. Cardinality(isType(t)) |->
                        agentId(CHOOSE k \in isType(t) :
                                  Cardinality({ j \in isType(t) : j < k }) = n - 1)]
        numObst == StoredNumObstacles(level, before, after)
        allEnt == [k \in 1 .. (nb + Len(after)) |->
                     IF k <= nb THEN ids[k] ELSE ids[na + k]]
    IN  [ent |-> AddEntities(E, recs),
         iface |-> [s \in DOMAIN I |->
                      IF s < na THEN makeAgent(I[s], types[s + 1], agentId(s + 1))
                      ELSE deactivate(I[s])],
         badSlot |-> na > Cardinality(DOMAIN I),
         tables |-> [obstacles |-> SubSeq(allEnt, 1, numObst),
                     boxes |-> boxIds,
                     boxSizes |-> [k \in DOMAIN boxIds |->
                                     IF k <= num_elongated THEN ElongatedSize
                                     ELSE CubeSize],
                     ramps |-> rampIds,
                     hiders |-> ofType(Hider),
                     seekers |-> ofType(Seeker)],
         counts |-> [numObstacles |-> numObst,
                     numActiveBoxes |-> IF level = 1 THEN total_num_boxes ELSE 0,
                     numActiveRamps |-> Len(rampIds),
                     numHiders |-> Len(ofType(Hider)),
                     numSeekers |-> Len(ofType(Seeker)),
                     numActiveAgents |-> na]]

\* The counters after the makeAgent calls of a level.  hiders[numHiders++]
\* and seekers[numSeekers++] past the end of the table store the handle over
\* the members that follow it in Sim (numHiders; numSeekers and
\* numActiveAgents): the counter keeps its value or holds what was stored.
makeAgentCounts(c) ==
    LET hs == IF c.numHiders > teamCapacity THEN {c.numHiders, 0} ELSE {c.numHiders}
        ss == IF c.numSeekers > teamCapacity THEN {c.numSeekers, 0} ELSE {c.numSeekers}
        as == IF c.numSeekers > teamCapacity THEN {c.numActiveAgents, 0}
              ELSE {c.numActiveAgents}
    IN  { [c EXCEPT !.numHiders = h, !.numSeekers = k, !.numActiveAgents = a] :
            h \in hs, k \in ss, a \in as }

\* resetEnvironment: the entities it destroys (the obstacles below
\* numObstacles, the agents of both teams and the constraints they hold).
Destroyed ==
    LET agents == SeqToSet(tables.hiders) \cup SeqToSet(tables.seekers)
    IN  SeqToSet(tables.obstacles) \cup agents
        \cup { ent[e].grab : e \in { x \in agents : ent[x].grab # NoneE } }

---------------------------------------------------------------------------
(* The state after construction (Sim::Sim), before the Init task graph.    *)

AgentObsIdx == 0 .. (maxAgents - 2)
BoxIdx == 0 .. (maxBoxes - 1)
RampIdx == 0 .. (maxRamps - 1)

\* The columns of an AgentInterface entity that nothing has written yet:
\* f = 0 is zero-filled table memory, any other f is what was there before.
FreshRow(f) ==
    LET obs == IF f = 0 THEN ZeroObs ELSE [about |-> 0 - 1, boxSize |-> <<f, f>>]
    IN  [simE |-> NoneE,
         agentType |-> IF f = 0 THEN Seeker ELSE Hider,
         action |-> [x |-> f, y |-> f, r |-> f, g |-> f, l |-> f],
         mask |-> f, reward |-> f, done |-> f, prep |-> f,
         agentObs |-> [k \in AgentObsIdx |-> obs],
         boxObs |-> [k \in BoxIdx |-> obs],
         rampObs |-> [k \in RampIdx |-> obs],
         agentVis |-> [k \in AgentObsIdx |-> f],
         boxVis |-> [k \in BoxIdx |-> f],
         rampVis |-> [k \in RampIdx |-> f]]

\* The assert of Sim::Sim on the configuration.
ConfigAccepted(c) ==
    c.maxHiders + c.maxSeekers <= maxAgents /\ c.maxHiders + c.maxSeekers > 0

SimInitWorld(configs, fills, keys, worlds) ==
    /\ cfg \in { c \in configs : ConfigAccepted(c) }
    /\ \E f \in fills : iface = [s \in Slots |-> FreshRow(f)]
    /\ pc = "reset"
    /\ todo = {}
    /\ resetLevel = 1
    /\ curEpisodeStep = 0
    /\ curWorldEpisode = 0
    /\ hiderTeamReward = 1
    /\ counts = [numObstacles |-> 0, numActiveBoxes |-> 0, numActiveRamps |-> 0,
                 numHiders |-> 0, numSeekers |-> 0, numActiveAgents |-> 0]
    /\ tables = [obstacles |-> <<>>, boxes |-> <<>>, boxSizes |-> <<>>,
                 ramps |-> <<>>, hiders |-> <<>>, seekers |-> <<>>]
    /\ ent = <<>>
    /\ badSlot = FALSE
    /\ genLevel = 0
    /\ ray = NoRay
    /\ gen \in { NoGen(k0) : k0 \in keys }
    /\ globalPositions = NoPositions
    /\ seen = {}
    /\ rnd \in { NoRnd(w) : w \in worlds }
    /\ frame = NoFrame

\* ... of world 0.
SimInitKeys(configs, fills, keys) == SimInitWorld(configs, fills, keys, {0})

\* ... of a world with base key 0.
SimInit(configs, fills) == SimInitKeys(configs, fills, {0})

---------------------------------------------------------------------------
(* The host (mgr.cpp).                                                     *)

\* Manager::setAction
setAction(inputs) ==
    /\ pc = "host"
    /\ \E i \in Slots, a \in inputs :
          /\ iface[i].action # a
          /\ iface' = [iface EXCEPT ![i].action = a]
    /\ UNCHANGED <<globalPositions, seen, rnd, frame, gen, pc, todo, cfg, resetLevel, curEpisodeStep, curWorldEpisode,
                   hiderTeamReward, counts, tables, ent, badSlot, genLevel, ray>>

\* Manager::triggerReset
triggerReset(levels) ==
    /\ pc = "host"
    /\ \E level_idx \in levels :
          /\ resetLevel # level_idx
          /\ resetLevel' = level_idx
    /\ UNCHANGED <<globalPositions, seen, rnd, frame, gen, pc, todo, cfg, curEpisodeStep, curWorldEpisode,
                   hiderTeamReward, counts, tables, iface, ent, badSlot, genLevel, ray>>

\* The host asks for the episode of a checkpoint: it stores the key of the
\* checkpoint and sets LoadCheckpoint.load.
loadCheckpoint(keys) ==
    /\ pc = "host"
    /\ rnd.load = 0
    /\ \E key \in keys : rnd' = [rnd EXCEPT !.load = 1, !.initRNDCounter = key]
    /\ UNCHANGED <<globalPositions, seen, frame, gen, pc, todo, cfg, resetLevel, curEpisodeStep, curWorldEpisode,
                   hiderTeamReward, counts, tables, iface, ent, badSlot, genLevel, ray>>

\* Variants of ResetLevelOf that the properties below must tell from the
\* code: the forced reset one step late, and the host's request dropped.
ResetLevelOfLate(slot) ==
    IF ~cfg.ignoreEpisodeLength /\ curEpisodeStep = episodeLen THEN 1 ELSE slot

ResetLevelOfForcedOnly(slot) ==
    IF ~cfg.ignoreEpisodeLength /\ curEpisodeStep = episodeLen - 1 THEN 1 ELSE 0

\* The level resetSystem acts on.
ResetLevelOf(slot) ==
    IF ~cfg.ignoreEpisodeLength /\ curEpisodeStep = episodeLen - 1 THEN 1 ELSE slot

\* The test of resetSystem: whether the step that starts now resets.
WillReset == ResetLevelOf(resetLevel) # 0

\* Manager::step starts the Step task graph.  The two counters that grow
\* without bound are capped: the step is not taken past the caps.
step ==
    /\ pc = "host"
    /\ WillReset /\ ~cfg.useFixedWorld => curWorldEpisode < MaxEpisodes
    /\ ~WillReset /\ cfg.ignoreEpisodeLength => curEpisodeStep < MaxSteps
    /\ pc' = "move"
    /\ todo' = Slots
    /\ UNCHANGED <<globalPositions, seen, rnd, frame, gen, cfg, resetLevel, curEpisodeStep, curWorldEpisode,
                   hiderTeamReward, counts, tables, iface, ent, badSlot, genLevel, ray>>

\* A variant of Visited in which the next node starts after the first slot.
VisitedEarly(i, next) ==
    /\ pc' = next
    /\ todo' = IF next \in {"physics", "reset", "host"} THEN {} ELSE Slots

\* A ParallelForNode has visited slot i: the node is left after the last slot.
Visited(i, next) ==
    /\ pc' = IF todo = {i} THEN next ELSE pc
    /\ todo' = IF todo = {i} THEN (IF next \in {"physics", "reset", "host"} THEN {} ELSE Slots)
               ELSE todo \ {i}

---------------------------------------------------------------------------
(* movementSystem and actionSystem.                                        *)

\* A variant of SeekerGated that holds the seekers one tick longer.
SeekerGatedLate(agent_type) ==
    agent_type = Seeker /\ curEpisodeStep < numPrepSteps

\* The gate of both systems on a seeker during the preparation phase.
SeekerGated(agent_type) ==
    agent_type = Seeker /\ curEpisodeStep < numPrepSteps - 1

\* The force (in the agent's heading frame) and torque movementSystem stores.
ForceOf(action) ==
    <<move_delta_per_bucket * (action.x - 5), move_delta_per_bucket * (action.y - 5)>>

TorqueOf(action) == turn_delta_per_bucket * (action.r - 5)

movementSystem(i) ==
    /\ pc = "move"
    /\ i \in todo
    /\ LET row == iface[i]
       IN  ent' = IF row.simE = NoneE \/ SeekerGated(row.agentType)
                  THEN ent
                  ELSE [ent EXCEPT ![row.simE].force = ForceOf(row.action),
                                   ![row.simE].torque = TorqueOf(row.action)]
    /\ Visited(i, "action")
    /\ UNCHANGED <<globalPositions, seen, rnd, frame, gen, cfg, resetLevel, curEpisodeStep, curWorldEpisode,
                   hiderTeamReward, counts, tables, iface, badSlot, genLevel, ray>>

\* bvh.traceRay from agent e along its heading, 2.5 long: no entity, or the
\* body of one of the kinds in reach that is nearest (lowest handle here).
RayHits(e, reach) ==
    LET ofKind(kind) == { h \in Bodies(ent) \ {e} : ent[h].obj = kind }
        first(kind) == CHOOSE h \in ofKind(kind) : \A o \in ofKind(kind) : h <= o
    IN  { IF kind = "none" \/ ofKind(kind) = {} THEN NoneE ELSE first(kind) :
            kind \in reach }

\* A variant of lock that unlocks whatever the owner.
lockAnyTeam(E, lock_entity, agent_type) ==
    IF lock_entity = NoneE THEN E
    ELSE IF E[lock_entity].rt = Static
         THEN [E EXCEPT ![lock_entity].rt = Dynamic,
                        ![lock_entity].owner = OwnerNone]
         ELSE IF E[lock_entity].owner = OwnerNone
              THEN [E EXCEPT ![lock_entity].rt = Static,
                             ![lock_entity].owner = agent_type]
              ELSE E

\* The lock branch of actionSystem on the entity the ray hit.
lock(E, lock_entity, agent_type) ==
    IF lock_entity = NoneE THEN E
    ELSE IF E[lock_entity].rt = Static
         THEN IF E[lock_entity].owner = agent_type
              THEN [E EXCEPT ![lock_entity].rt = Dynamic,
                             ![lock_entity].owner = OwnerNone]
              ELSE E
         ELSE IF E[lock_entity].owner = OwnerNone
              THEN [E EXCEPT ![lock_entity].rt = Static,
                             ![lock_entity].owner = agent_type]
              ELSE E

\* A variant of grab that releases by clearing the link only.
grabKeepJoint(E, e, grab_entity) ==
    IF E[e].grab # NoneE
    THEN [E EXCEPT ![e].grab = NoneE]
    ELSE IF /\ grab_entity # NoneE
            /\ E[grab_entity].owner = OwnerNone
            /\ E[grab_entity].rt = Dynamic
         THEN LET joint == FreeId(DOMAIN E, 1)
              IN  [x \in (DOMAIN E) \cup {joint} |->
                     IF x = joint THEN makeFixedJoint(e, grab_entity)
                     ELSE IF x = e THEN [E[x] EXCEPT !.grab = joint]
                     ELSE E[x]]
         ELSE E

\* The grab branch of actionSystem for agent body e.
grab(E, e, grab_entity) ==
    IF E[e].grab # NoneE
    THEN [x \in (DOMAIN E) \ {E[e].grab} |->
            IF x = e THEN [E[x] EXCEPT !.grab = NoneE] ELSE E[x]]
    ELSE IF /\ grab_entity # NoneE
            /\ E[grab_entity].owner = OwnerNone
            /\ E[grab_entity].rt = Dynamic
         THEN LET joint == FreeId(DOMAIN E, 1)
              IN  [x \in (DOMAIN E) \cup {joint} |->
                     IF x = joint THEN makeFixedJoint(e, grab_entity)
                     ELSE IF x = e THEN [E[x] EXCEPT !.grab = joint]
                     ELSE E[x]]
         ELSE E

actionSystem(i, reach) ==
    /\ pc = "action"
    /\ i \in todo
    /\ LET row == iface[i]
       IN  IF row.simE = NoneE \/ SeekerGated(row.agentType)
           THEN /\ UNCHANGED <<ent, iface>>
                /\ ray' = NoRay
           ELSE \E hit \in RayHits(row.simE, reach) :
                  LET locked == IF row.action.l = 1
                                THEN lock(ent, hit, row.agentType) ELSE ent
                      traced == row.action.l = 1
                                \/ (row.action.g = 1 /\ ent[row.simE].grab = NoneE)
                  IN  /\ ent' = IF row.action.g = 1
                                THEN grab(locked, row.simE, hit) ELSE locked
                      /\ iface' = [iface EXCEPT ![i].action = NeutralAction]
                      /\ ray' = [by |-> i, l |-> row.action.l, g |-> row.action.g,
                                 hit |-> IF traced THEN hit ELSE NoneE]
    /\ Visited(i, "physics")
    /\ UNCHANGED <<globalPositions, seen, rnd, frame, gen, cfg, resetLevel, curEpisodeStep, curWorldEpisode,
                   hiderTeamReward, counts, tables, badSlot, genLevel>>

\* PhysicsSystem::setupPhysicsStepTasks: the poses move.  Of a pose the
\* model keeps whether it is outside the arena (|x| >= 18 or |y| >= 18),
\* for the agents; oob is what the step may make of it.
physicsStep(oob) ==
    /\ pc = "physics"
    /\ \E where \in [{ e \in DOMAIN ent : ent[e].arch = "DynAgent" } -> oob] :
          ent' = [e \in DOMAIN ent |->
                    IF e \in DOMAIN where THEN [ent[e] EXCEPT !.outside = where[e]]
                    ELSE ent[e]]
    /\ pc' = "rewards"
    /\ todo' = Slots
    /\ ray' = NoRay
    /\ UNCHANGED <<globalPositions, seen, rnd, frame, gen, cfg, resetLevel, curEpisodeStep, curWorldEpisode,
                   hiderTeamReward, counts, tables, iface, badSlot, genLevel>>

---------------------------------------------------------------------------
(* actionSystem as the ParallelForNode runs it: the invocations of the     *)
(* agents of one world are separate threads, and the lock branch reads     *)
(* OwnerTeam and ResponseType of the entity before it writes them.         *)

\* The kinds of body the rays of the agents reach in SpecRace.
RaceReach == {"Cube"}

\* The lock branch on the components as the invocation has read them.
lockWrite(E, lock_entity, agent_type, response_type, owner) ==
    IF lock_entity = NoneE THEN E
    ELSE IF response_type = Static
         THEN IF owner = agent_type
              THEN [E EXCEPT ![lock_entity].rt = Dynamic,
                             ![lock_entity].owner = OwnerNone]
              ELSE E
         ELSE IF owner = OwnerNone
              THEN [E EXCEPT ![lock_entity].rt = Static,
                             ![lock_entity].owner = agent_type]
              ELSE E

\* The invocation for slot i up to the reads of the lock branch.
actionSystemRead(i) ==
    /\ pc = "action"
    /\ i \in todo
    /\ i \notin DOMAIN frame.reads
    /\ LET row == iface[i]
           traces == row.simE # NoneE /\ ~SeekerGated(row.agentType) /\ row.action.l = 1
           hits == IF traces THEN RayHits(row.simE, RaceReach) ELSE {NoneE}
       IN  \E hit \in hits :
             LET read == IF hit = NoneE
                         THEN [hit |-> NoneE, rt |-> Static, owner |-> Unownable]
                         ELSE [hit |-> hit, rt |-> ent[hit].rt, owner |-> ent[hit].owner]
                 first == DOMAIN frame.reads = {}
             IN  frame' = [reads |-> [s \in DOMAIN frame.reads \cup {i} |->
                                        IF s = i THEN read ELSE frame.reads[s]],
                           ent0 |-> IF first THEN ent ELSE frame.ent0,
                           act0 |-> IF first THEN [s \in Slots |-> iface[s].action]
                                    ELSE frame.act0]
    /\ UNCHANGED <<globalPositions, seen, rnd, gen, pc, todo, cfg, resetLevel, curEpisodeStep, curWorldEpisode,
                   hiderTeamReward, counts, tables, iface, ent, badSlot, genLevel, ray>>

\* The rest of the invocation for slot i: the writes of the lock branch,
\* the grab branch and the consumption of the record.
actionSystemWrite(i) ==
    /\ pc = "action"
    /\ i \in todo
    /\ i \in DOMAIN frame.reads
    /\ LET row == iface[i]
           r == frame.reads[i]
       IN  IF row.simE = NoneE \/ SeekerGated(row.agentType)
           THEN /\ UNCHANGED <<ent, iface>>
                /\ ray' = NoRay
           ELSE \E hit \in RayHits(row.simE, RaceReach) :
                  LET locked == IF row.action.l = 1
                                THEN lockWrite(ent, r.hit, row.agentType, r.rt, r.owner)
                                ELSE ent
                  IN  /\ ent' = IF row.action.g = 1
                                THEN grab(locked, row.simE, hit) ELSE locked
                      /\ iface' = [iface EXCEPT ![i].action = NeutralAction]
                      /\ ray' = [by |-> i, l |-> row.action.l, g |-> row.action.g,
                                 hit |-> r.hit]
    /\ frame' = IF todo = {i} THEN [frame EXCEPT !.reads = <<>>] ELSE frame
    /\ Visited(i, "physics")
    /\ UNCHANGED <<globalPositions, seen, rnd, gen, cfg, resetLevel, curEpisodeStep, curWorldEpisode,
                   hiderTeamReward, counts, tables, badSlot, genLevel>>

---------------------------------------------------------------------------
(* outputRewardsDonesSystem and resetSystem.                               *)

\* A variant of TeamReward without the seekers' negation.
TeamRewardSame(agent_type) == hiderTeamReward

\* reward_val before the boundary test.
TeamReward(agent_type) ==
    IF agent_type = Seeker THEN 0 - hiderTeamReward ELSE hiderTeamReward

\* Variants of outputRewardsDones: the done flag never cleared, the
\* preparation test dropped, and the preparation test one tick short.
outputRewardsDonesKeep(row, outside) ==
    LET cur_step == curEpisodeStep
    IN  IF cur_step < numPrepSteps - 1
        THEN [row EXCEPT !.reward = 0]
        ELSE LET reward_val == TeamReward(row.agentType)
             IN  [row EXCEPT
                    !.done = IF cur_step = episodeLen - 1 THEN 1 ELSE row.done,
                    !.reward = IF outside THEN reward_val - boundaryPenalty
                               ELSE reward_val]

outputRewardsDonesNoPrep(row, outside) ==
    LET cur_step == curEpisodeStep
        done0 == IF cur_step = 0 THEN 0 ELSE row.done
        reward_val == TeamReward(row.agentType)
    IN  [row EXCEPT
           !.done = IF cur_step = episodeLen - 1 THEN 1 ELSE done0,
           !.reward = IF outside THEN reward_val - boundaryPenalty ELSE reward_val]

outputRewardsDonesShort(row, outside) ==
    LET cur_step == curEpisodeStep
        done0 == IF cur_step = 0 THEN 0 ELSE row.done
    IN  IF cur_step < numPrepSteps - 2
        THEN [row EXCEPT !.done = done0, !.reward = 0]
        ELSE LET reward_val == TeamReward(row.agentType)
             IN  [row EXCEPT
                    !.done = IF cur_step = episodeLen - 1 THEN 1 ELSE done0,
                    !.reward = IF outside THEN reward_val - boundaryPenalty
                               ELSE reward_val]

\* The row as outputRewardsDonesSystem leaves it; outside is the outcome of
\* the boundary test fabsf(pos.x) >= 18.f || fabsf(pos.y) >= 18.f.
outputRewardsDones(row, outside) ==
    LET cur_step == curEpisodeStep
        done0 == IF cur_step = 0 THEN 0 ELSE row.done
    IN  IF cur_step < numPrepSteps - 1
        THEN [row EXCEPT !.done = done0, !.reward = 0]
        ELSE LET reward_val == TeamReward(row.agentType)
             IN  [row EXCEPT
                    !.done = IF cur_step = episodeLen - 1 THEN 1 ELSE done0,
                    !.reward = IF outside THEN reward_val - boundaryPenalty
                               ELSE reward_val]

outputRewardsDonesSystem(i) ==
    /\ pc = "rewards"
    /\ i \in todo
    /\ iface' = IF iface[i].simE = NoneE THEN iface
                ELSE [iface EXCEPT ![i] =
                        outputRewardsDones(iface[i], ent[iface[i].simE].outside)]
    /\ Visited(i, "reset")
    /\ UNCHANGED <<globalPositions, seen, rnd, frame, gen, cfg, resetLevel, curEpisodeStep, curWorldEpisode,
                   hiderTeamReward, counts, tables, ent, badSlot, genLevel, ray>>

\* initEpisodeRNG: the key it derives.
new_rnd_counter ==
    IF cfg.useFixedWorld THEN <<0, 0>>
    ELSE IF rnd.load = 1 THEN rnd.initRNDCounter
         ELSE <<curWorldEpisode, rnd.worldID>>

\* The episode counter moves with a checkpoint load as without one.
initEpisodeRNGCount == IF cfg.useFixedWorld THEN curWorldEpisode ELSE curWorldEpisode + 1

\* initEpisodeRNG: the episode counter after the key has been derived.
initEpisodeRNG ==
    IF cfg.useFixedWorld \/ rnd.load = 1 THEN curWorldEpisode
    ELSE curWorldEpisode + 1

\* initEpisodeRNG: the key it installs in curEpisodeRNDCounter.
installKey ==
    [rnd EXCEPT !.curEpisodeRNDCounter = new_rnd_counter,
                !.issued = IF cfg.useFixedWorld \/ rnd.load = 1 THEN @
                           ELSE @ \cup {new_rnd_counter}]

resetSystem(boxTotals) ==
    /\ pc = "reset"
    /\ LET level == ResetLevelOf(resetLevel)
       IN  IF level # 0
           THEN \E num_hiders \in sampleI32(cfg.minHiders, cfg.maxHiders + 1),
                   num_seekers \in sampleI32(cfg.minSeekers, cfg.maxSeekers + 1),
                   total_num_boxes \in sampleI32(3, 10) \cap boxTotals :
                  \E num_elongated \in sampleI32(3, total_num_boxes) :
                    LET g == generateEnvironment(Remove(ent, Destroyed), iface, level,
                                 num_hiders, num_seekers, total_num_boxes, num_elongated)
                    IN  /\ curEpisodeStep' = 0
                        /\ curWorldEpisode' = initEpisodeRNG
                        /\ rnd' = installKey
                        /\ resetLevel' = 0
                        /\ ent' = g.ent
                        /\ iface' = g.iface
                        /\ tables' = g.tables
                        /\ counts' \in makeAgentCounts(g.counts)
                        /\ badSlot' = (badSlot \/ g.badSlot)
                        /\ genLevel' = level
           ELSE /\ curEpisodeStep' = curEpisodeStep + 1
                /\ UNCHANGED <<curWorldEpisode, rnd, resetLevel, ent, iface, tables,
                               counts, badSlot, genLevel>>
    /\ hiderTeamReward' = 1
    /\ pc' = "collect"
    /\ todo' = Slots
    /\ UNCHANGED <<globalPositions, seen, frame, gen, cfg, ray>>

---------------------------------------------------------------------------
(* generateTrainingEnvironment, one candidate pose at a time.               *)
(* The arena is NumCells cells; a pose is the cell it falls into and two    *)
(* bounding boxes overlap when they are in the same cell.                   *)

Cells == 0 .. (NumCells - 1)

\* The n-th value of the stream RNG(split_i(initRandKey, a, b)).
Rand(k0, key, n) ==
    ((k0 + 2) * (n + 1) * (n + 3) + (key + 1) * (n + 7) * 5 + (n \div 2)) % RandMod

\* The element of the finite set S of integers that the random value r selects.
Pick(S, r) ==
    CHOOSE x \in S : Cardinality({ y \in S : y < x }) = r % Cardinality(S)

\* A variant of initEpisodeRNG that leaves the stream where it was.
initEpisodeStreamKeep(g, key) == [g EXCEPT !.key = key]

\* initEpisodeRNG: the key of the episode and a stream started from it.
initEpisodeStream(g, key) == [g EXCEPT !.key = key, !.n = 0]

\* The key initEpisodeRNG derives.
EpisodeKey == new_rnd_counter[1]

\* The objects the placement loops place, in order, and which loop places
\* the idx-th of them.
NumBoxes(g) ==
    LET num_cubes == g.total_num_boxes - g.num_elongated
    IN  g.num_elongated + (IF num_cubes > 0 THEN num_cubes ELSE 0)

NumPlaced(g) == NumBoxes(g) + maxRamps + g.num_hiders + g.num_seekers

KindOf(g, idx) ==
    IF idx <= g.num_elongated THEN "Box"
    ELSE IF idx <= NumBoxes(g) THEN "Cube"
    ELSE IF idx <= NumBoxes(g) + maxRamps THEN "Ramp"
    ELSE IF idx <= NumBoxes(g) + maxRamps + g.num_hiders THEN "Hider"
    ELSE "Seeker"

\* The lambda checkOverlap: TRUE when the pose overlaps nothing in
\* all_entities.
checkOverlap(all_entities, cell) ==
    \A k \in DOMAIN all_entities : all_entities[k] # cell

\* A variant of the placement test with one more rejection.
placeNowLate(clear, rejections) == clear \/ rejections = max_rejections + 1

\* The test of every placement loop.
placeNow(clear, rejections) == clear \/ rejections = max_rejections

\* What an episode generation produced.
Outcome(g) ==
    [num_hiders |-> g.num_hiders, num_seekers |-> g.num_seekers,
     total_num_boxes |-> g.total_num_boxes, num_elongated |-> g.num_elongated,
     placed |-> [k \in DOMAIN g.placed |-> [kind |-> g.placed[k].kind,
                                           cell |-> g.placed[k].cell]],
     draws |-> g.n]

\* resetSystem on a training level, up to the first placement loop:
\* resetEnvironment, the team sizes, the box counts and the static geometry.
generateBegin ==
    /\ pc = "reset"
    /\ ResetLevelOf(resetLevel) = 1
    /\ LET g0 == initEpisodeStream(gen, EpisodeKey)
           r(n) == Rand(g0.initRandKey, g0.key, g0.n + n)
           num_hiders == Pick(sampleI32(cfg.minHiders, cfg.maxHiders + 1), r(0))
           num_seekers == Pick(sampleI32(cfg.minSeekers, cfg.maxSeekers + 1), r(1))
           total_num_boxes == Pick(sampleI32(3, 10), r(2))
           num_elongated == Pick(sampleI32(3, total_num_boxes), r(3))
       IN  gen' = [g0 EXCEPT !.n = g0.n + 4 + NumWalls,
                             !.num_hiders = num_hiders,
                             !.num_seekers = num_seekers,
                             !.total_num_boxes = total_num_boxes,
                             !.num_elongated = num_elongated,
                             !.all_entities = [k \in 1 .. NumWalls |->
                                                 Pick(Cells, r(3 + k))],
                             !.placed = <<>>,
                             !.rejections = 0]
    /\ curEpisodeStep' = 0
    /\ curWorldEpisode' = initEpisodeRNG
    /\ rnd' = installKey
    /\ resetLevel' = 0
    /\ ent' = Remove(ent, Destroyed)
    /\ tables' = [obstacles |-> <<>>, boxes |-> <<>>, boxSizes |-> <<>>,
                  ramps |-> <<>>, hiders |-> <<>>, seekers |-> <<>>]
    /\ counts' = [numObstacles |-> 0, numActiveBoxes |-> 0, numActiveRamps |-> 0,
                  numHiders |-> 0, numSeekers |-> 0, numActiveAgents |-> 0]
    /\ pc' = "generate"
    /\ UNCHANGED <<globalPositions, seen, frame, todo, cfg, hiderTeamReward, iface, badSlot, genLevel, ray>>

\* One iteration of the while (true) of a placement loop.
generateSample ==
    /\ pc = "generate"
    /\ Len(gen.placed) < NumPlaced(gen)
    /\ LET kind == KindOf(gen, Len(gen.placed) + 1)
           cell == Pick(Cells, Rand(gen.initRandKey, gen.key, gen.n))
           clear == checkOverlap(gen.all_entities, cell)
       IN  IF placeNow(clear, gen.rejections)
           THEN gen' = [gen EXCEPT
                          !.n = gen.n + 1,
                          !.placed = Append(gen.placed,
                                            [kind |-> kind, cell |-> cell,
                                             samples |-> gen.rejections + 1,
                                             clear |-> clear]),
                          !.all_entities = IF kind \in {"Hider", "Seeker"}
                                           THEN gen.all_entities
                                           ELSE Append(gen.all_entities, cell),
                          !.rejections = 0]
           ELSE gen' = [gen EXCEPT !.n = gen.n + 1,
                                   !.rejections = gen.rejections + 1]
    /\ UNCHANGED <<globalPositions, seen, rnd, frame, pc, todo, cfg, resetLevel, curEpisodeStep, curWorldEpisode,
                   hiderTeamReward, counts, tables, iface, ent, badSlot, genLevel, ray>>

\* The end of generateTrainingEnvironment (the floor plane, numObstacles),
\* the tail of generateEnvironment and the end of resetSystem.
generateEnd ==
    /\ pc = "generate"
    /\ Len(gen.placed) = NumPlaced(gen)
    /\ LET g == generateEnvironment(ent, iface, 1, gen.num_hiders, gen.num_seekers,
                                    gen.total_num_boxes, gen.num_elongated)
       IN  /\ ent' = g.ent
           /\ iface' = g.iface
           /\ tables' = g.tables
           /\ counts' \in makeAgentCounts(g.counts)
           /\ badSlot' = (badSlot \/ g.badSlot)
    /\ genLevel' = 1
    /\ gen' = [gen EXCEPT !.episodes =
                 IF gen.key \in DOMAIN gen.episodes THEN gen.episodes
                 ELSE [k \in DOMAIN gen.episodes \cup {gen.key} |->
                         IF k = gen.key THEN Outcome(gen) ELSE gen.episodes[k]]]
    /\ hiderTeamReward' = 1
    /\ pc' = "collect"
    /\ todo' = Slots
    /\ UNCHANGED <<globalPositions, seen, rnd, frame, cfg, resetLevel, curEpisodeStep, curWorldEpisode, ray>>

---------------------------------------------------------------------------
(* collectObservationsSystem and computeVisibilitySystem.                  *)

\* The interface slot whose record lands at entry k of the other-agent
\* arrays of slot i: the slots are walked in order and i itself is skipped.
OtherAt(i, k) == IF k < i THEN k ELSE k + 1

collectObservations(row, i) ==
    LET cur_step == curEpisodeStep
        num_agents == counts.numActiveAgents
    IN  [row EXCEPT
           !.prep = IF cur_step <= numPrepSteps THEN numPrepSteps - cur_step
                    ELSE row.prep,
           !.boxObs = [k \in BoxIdx |->
                         IF k >= counts.numActiveBoxes THEN ZeroObs
                         ELSE ObsOf(tables.boxes[k + 1], tables.boxSizes[k + 1])],
           !.rampObs = [k \in RampIdx |->
                          IF k >= counts.numActiveRamps THEN ZeroObs
                          ELSE ObsOf(tables.ramps[k + 1], <<0, 0>>)],
           !.agentObs = [k \in AgentObsIdx |->
                           IF k >= num_agents - 1 THEN ZeroObs
                           ELSE ObsOf(iface[OtherAt(i, k)].simE, <<0, 0>>)]]

collectObservationsSystem(i) ==
    /\ pc = "collect"
    /\ i \in todo
    /\ iface' = IF iface[i].simE = NoneE THEN iface
                ELSE [iface EXCEPT ![i] = collectObservations(iface[i], i)]
    /\ Visited(i, "vis")
    /\ UNCHANGED <<globalPositions, seen, rnd, frame, gen, cfg, resetLevel, curEpisodeStep, curWorldEpisode,
                   hiderTeamReward, counts, tables, ent, badSlot, genLevel, ray>>

\* checkVisibility of the entities in visible: 1.f or 0.f.
Vis(visible, e) == IF e \in visible THEN 1 ELSE 0

\* The poses decide what an agent sees: nothing, every body, or the bodies
\* of the other agents only.
SeenSets(tags) ==
    { CASE t = "all" -> Bodies(ent)
        [] t = "agents" -> { e \in Bodies(ent) : ent[e].arch = "DynAgent" }
        [] OTHER -> {} : t \in tags }

\* Whether the CPU path stores -1 into hiderTeamReward for slot i.
SeesHider(i, visible) ==
    /\ iface[i].agentType = Seeker
    /\ \E j \in Slots \ {i} :
          /\ j < counts.numActiveAgents
          /\ iface[j].simE \in visible
          /\ iface[j].agentType = Hider

\* The masks of slot i after the CPU path (#else branch).
visibilityCPU(row, i, visible) ==
    [row EXCEPT
       !.boxVis = [k \in BoxIdx |->
                     IF k < counts.numActiveBoxes THEN Vis(visible, tables.boxes[k + 1])
                     ELSE 0],
       !.rampVis = [k \in RampIdx |->
                      IF k < counts.numActiveRamps THEN Vis(visible, tables.ramps[k + 1])
                      ELSE 0],
       !.agentVis = [k \in AgentObsIdx |->
                       IF k >= counts.numActiveAgents - 1 THEN 0
                       ELSE Vis(visible, iface[OtherAt(i, k)].simE)]]

\* MADRONA_GPU_MODE: lane l < maxAgents checks agent l; valid_check is false
\* for the lane of the observing agent itself.
LaneValid(i, l) == ~(l < counts.numActiveAgents /\ l = i)

NumLowerValid(i, lane) == Cardinality({ l \in 0 .. (lane - 1) : LaneValid(i, l) })

\* The rows of the interface table after the warp of slot i has run the
\* MADRONA_GPU_MODE path.  Lanes maxAgents .. maxAgents + maxBoxes - 1 test
\* cur_idx (not box_idx) against numActiveBoxes and store to
\* box_vis.visible[cur_idx], which is past the array of row i: entry n of
\* the column counted from row i lies in row i + n \div maxBoxes.
visibilityGPU(I, i, visible) ==
    LET agentLanes == { l \in 0 .. (maxAgents - 1) : LaneValid(i, l) }
        boxLanes == maxAgents .. (maxAgents + maxBoxes - 1)
        laneOf(k) == CHOOSE l \in agentLanes : NumLowerValid(i, l) = k
        written(s, k) == \E l \in boxLanes :
                            /\ s = i + (l \div maxBoxes)
                            /\ k = l % maxBoxes
    IN  [s \in DOMAIN I |->
           LET row == I[s]
               cur_idx(k) == (s - i) * maxBoxes + k
               box == [k \in BoxIdx |->
                         IF written(s, k)
                         THEN IF cur_idx(k) < counts.numActiveBoxes
                              THEN Vis(visible, tables.boxes[cur_idx(k) + 1]) ELSE 0
                         ELSE row.boxVis[k]]
           IN  IF s # i THEN [row EXCEPT !.boxVis = box]
               ELSE [row EXCEPT
                       !.boxVis = box,
                       !.rampVis = [k \in RampIdx |->
                                      IF k < counts.numActiveRamps
                                      THEN Vis(visible, tables.ramps[k + 1]) ELSE 0],
                       !.agentVis = [k \in AgentObsIdx |->
                                       IF \E l \in agentLanes : NumLowerValid(i, l) = k
                                       THEN IF laneOf(k) < counts.numActiveAgents
                                            THEN Vis(visible, I[laneOf(k)].simE)
                                            ELSE 0
                                       ELSE row.agentVis[k]]]]

computeVisibilitySystem(i, tags) ==
    /\ pc = "vis"
    /\ i \in todo
    /\ IF iface[i].simE = NoneE
       THEN UNCHANGED <<iface, hiderTeamReward, seen>>
       ELSE \E visible \in SeenSets(tags) :
              /\ seen' = visible
              /\ IF cfg.gpuMode
                 THEN /\ iface' = visibilityGPU(iface, i, visible)
                      /\ UNCHANGED hiderTeamReward
                 ELSE /\ iface' = [iface EXCEPT ![i] = visibilityCPU(iface[i], i, visible)]
                      /\ hiderTeamReward' = IF SeesHider(i, visible) THEN 0 - 1
                                            ELSE hiderTeamReward
    /\ Visited(i, "host")
    /\ UNCHANGED <<globalPositions, rnd, frame, gen, cfg, resetLevel, curEpisodeStep, curWorldEpisode,
                   counts, tables, ent, badSlot, genLevel, ray>>

\* The step of the episode the world is in.
Now == <<curWorldEpisode, curEpisodeStep>>

\* The last loop of globalPositionsDebugSystem with one increment per slot.
zeroRestEach(out_offset) == out_offset .. (maxAgents - 1)

\* The last loop of globalPositionsDebugSystem: out_offset is incremented in
\* the store and in the loop header, so every second slot is written.
zeroRest(out_offset) ==
    { k \in out_offset .. (maxAgents - 1) : (k - out_offset) % 2 = 0 }

\* globalPositionsDebugSystem: it depends on the reset only and runs here
\* before the observations of the agents, which it neither reads nor writes.
globalPositionsDebugSystem ==
    /\ pc = "collect"
    /\ todo = Slots
    /\ globalPositions.at # Now
    /\ LET placed == tables.hiders \o tables.seekers
           n == Len(placed)
       IN  globalPositions' =
             [boxPositions |-> [k \in 0 .. (maxBoxes - 1) |->
                                 IF k >= counts.numActiveBoxes THEN NoneE
                                 ELSE tables.boxes[k + 1]],
              rampPositions |-> [k \in 0 .. (maxRamps - 1) |->
                                  IF k >= counts.numActiveRamps THEN NoneE
                                  ELSE tables.ramps[k + 1]],
              agentPositions |-> [k \in 0 .. (maxAgents - 1) |->
                                   IF k < n THEN placed[k + 1]
                                   ELSE IF k \in zeroRest(n) THEN NoneE
                                   ELSE globalPositions.agentPositions[k]],
              at |-> Now]
    /\ UNCHANGED <<seen, rnd, frame, gen, pc, todo, cfg, resetLevel, curEpisodeStep,
                   curWorldEpisode, hiderTeamReward, counts, tables, iface, ent, badSlot,
                   genLevel, ray>>

---------------------------------------------------------------------------
(* Specifications.                                                         *)

Config(flags, gpu, hiders, seekers) ==
    [ignoreEpisodeLength |-> flags[1], useFixedWorld |-> flags[2], gpuMode |-> gpu,
     minHiders |-> hiders[1], maxHiders |-> hiders[2],
     minSeekers |-> seekers[1], maxSeekers |-> seekers[2]]

MoveAction == [x |-> 10, y |-> 0, r |-> 7, g |-> 0, l |-> 0]
LockAction == [x |-> 5, y |-> 5, r |-> 5, g |-> 0, l |-> 1]
GrabAction == [x |-> 5, y |-> 5, r |-> 5, g |-> 1, l |-> 0]

\* The host resets a world at will, to the training level and to the debug
\* scene of level 6 (a hider and a seeker each).
Init == SimInit({Config(<<FALSE, FALSE>>, FALSE, <<1, 1>>, <<1, 1>>)}, {0})

Next ==
    \/ triggerReset({1, 6})
    \/ step
    \/ \E i \in Slots : movementSystem(i)
    \/ \E i \in Slots : actionSystem(i, {"none"})
    \/ physicsStep({FALSE})
    \/ \E i \in Slots : outputRewardsDonesSystem(i)
    \/ resetSystem({4})
    \/ \E i \in Slots : collectObservationsSystem(i)
    \/ \E i \in Slots : computeVisibilitySystem(i, {"all"})

Spec == Init /\ [][Next]_vars

\* Episodes that end on their own: no reset request, IgnoreEpisodeLength unset.
InitNatural == SimInit({Config(<<FALSE, FALSE>>, FALSE, <<0, 1>>, <<1, 1>>)}, {0, 7})

NextNatural ==
    \/ step
    \/ \E i \in Slots : movementSystem(i)
    \/ \E i \in Slots : actionSystem(i, {"none"})
    \/ physicsStep(BOOLEAN)
    \/ \E i \in Slots : outputRewardsDonesSystem(i)
    \/ resetSystem({4})
    \/ \E i \in Slots : collectObservationsSystem(i)
    \/ \E i \in Slots : computeVisibilitySystem(i, {"none", "all"})

SpecNatural == InitNatural /\ [][NextNatural]_vars

\* One hider and one seeker acting on the nearest cube, through the
\* preparation phase and past it, in the training level and in the debug
\* scene of level 6 (a wall, a cube, a hider and a seeker).
InitAct == SimInit({Config(<<TRUE, FALSE>>, FALSE, <<1, 1>>, <<1, 1>>)}, {0})

NextAct ==
    \/ setAction({NeutralAction, MoveAction, LockAction, GrabAction})
    \/ triggerReset({6})
    \/ step
    \/ \E i \in Slots : movementSystem(i)
    \/ \E i \in Slots : actionSystem(i, {"none", "Cube"})
    \/ physicsStep({FALSE})
    \/ \E i \in Slots : outputRewardsDonesSystem(i)
    \/ resetSystem({4})
    \/ \E i \in Slots : collectObservationsSystem(i)
    \/ \E i \in Slots : computeVisibilitySystem(i, {"none"})

SpecAct == InitAct /\ [][NextAct]_vars

\* Both builds of computeVisibilitySystem.
InitVis == SimInit({Config(<<FALSE, FALSE>>, gpu, <<1, 1>>, <<1, 1>>) : gpu \in BOOLEAN}, {0})

NextVis ==
    \/ step
    \/ \E i \in Slots : movementSystem(i)
    \/ \E i \in Slots : actionSystem(i, {"none"})
    \/ physicsStep({FALSE})
    \/ \E i \in Slots : outputRewardsDonesSystem(i)
    \/ resetSystem({4})
    \/ \E i \in Slots : collectObservationsSystem(i)
    \/ \E i \in Slots : computeVisibilitySystem(i, {"none", "agents", "all"})

SpecVis == InitVis /\ [][NextVis]_vars

\* The host walks through the levels: it resets to any of the levels
\* 1 .. 8 and lets an episode run for at most LevelSteps ticks.
InitLevels == SimInit({Config(<<FALSE, FALSE>>, FALSE, <<1, 1>>, <<1, 1>>)}, {0})

NextLevels ==
    \/ triggerReset(1 .. 8)
    \/ (WillReset \/ curEpisodeStep < LevelSteps) /\ step
    \/ \E i \in Slots : movementSystem(i)
    \/ \E i \in Slots : actionSystem(i, {"none"})
    \/ physicsStep({FALSE})
    \/ \E i \in Slots : outputRewardsDonesSystem(i)
    \/ resetSystem({4})
    \/ \E i \in Slots : collectObservationsSystem(i)
    \/ \E i \in Slots : computeVisibilitySystem(i, {"all"})

SpecLevels == InitLevels /\ [][NextLevels]_vars

\* The training level is generated one candidate pose at a time, in worlds
\* with and without UseFixedWorld and with each of the base keys; the host
\* resets to the training level at will.
InitGen ==
    SimInitKeys({Config(<<FALSE, fixed>>, FALSE, <<1, 2>>, <<1, 1>>) : fixed \in BOOLEAN},
                {0}, 0 .. (NumRandKeys - 1))

NextGen ==
    \/ triggerReset({1})
    \/ (WillReset \/ curEpisodeStep < LevelSteps) /\ step
    \/ \E i \in Slots : movementSystem(i)
    \/ \E i \in Slots : actionSystem(i, {"none"})
    \/ physicsStep({FALSE})
    \/ \E i \in Slots : outputRewardsDonesSystem(i)
    \/ generateBegin
    \/ generateSample
    \/ generateEnd
    \/ ~WillReset /\ resetSystem({4})
    \/ \E i \in Slots : collectObservationsSystem(i)
    \/ \E i \in Slots : computeVisibilitySystem(i, {"none"})

SpecGen == InitGen /\ [][NextGen]_vars

\* resetSystem runs to its end once the task graph has started it.
SpecGenFair == SpecGen /\ WF_vars(generateSample) /\ WF_vars(generateEnd)

\* The debug snapshot over resets to the procedural level (two agents), to
\* a scene without agents and to the scene of one hider.
InitDebug == SimInit({Config(<<FALSE, FALSE>>, FALSE, <<1, 1>>, <<1, 1>>)}, {0})

NextDebug ==
    \/ triggerReset({1, 2, 5})
    \/ (WillReset \/ curEpisodeStep < LevelSteps) /\ step
    \/ \E i \in Slots : movementSystem(i)
    \/ \E i \in Slots : actionSystem(i, {"none"})
    \/ physicsStep({FALSE})
    \/ \E i \in Slots : outputRewardsDonesSystem(i)
    \/ resetSystem({4})
    \/ globalPositionsDebugSystem
    \/ globalPositions.at = Now /\ \E i \in Slots : collectObservationsSystem(i)
    \/ \E i \in Slots : computeVisibilitySystem(i, {"all"})

SpecDebug == InitDebug /\ [][NextDebug]_vars

\* A world of one hider and no seeker (maxAgentsPerWorld = 1) that the host
\* resets to the procedural level and to debug scenes.  What the program does
\* once makeAgent has used an entry of agentInterfaces that the constructor
\* did not set is not defined: nothing is run from there.
InitSolo == SimInit({Config(<<FALSE, FALSE>>, FALSE, <<1, 1>>, <<0, 0>>)}, {0})

NextSolo ==
    \/ triggerReset({1, 5, 6})
    \/ (~badSlot /\ (WillReset \/ curEpisodeStep < LevelSteps)) /\ step
    \/ \E i \in Slots : movementSystem(i)
    \/ \E i \in Slots : actionSystem(i, {"none"})
    \/ physicsStep({FALSE})
    \/ \E i \in Slots : outputRewardsDonesSystem(i)
    \/ resetSystem({4})
    \/ ~badSlot /\ \E i \in Slots : collectObservationsSystem(i)
    \/ ~badSlot /\ \E i \in Slots : computeVisibilitySystem(i, {"all"})

SpecSolo == InitSolo /\ [][NextSolo]_vars

\* Worlds 0 and 1, with and without the fixed-world flag, reset by the host
\* with and without a checkpoint to load.
InitKey ==
    SimInitWorld({ Config(<<FALSE, fixed>>, FALSE, <<1, 1>>, <<1, 1>>) : fixed \in BOOLEAN },
                 {0}, {0}, {0, 1})

NextKey ==
    \/ triggerReset({1})
    \/ loadCheckpoint({<<0, 0>>, <<1, 1>>, <<7, 0>>})
    \/ step
    \/ \E i \in Slots : movementSystem(i)
    \/ \E i \in Slots : actionSystem(i, {"none"})
    \/ physicsStep({FALSE})
    \/ \E i \in Slots : outputRewardsDonesSystem(i)
    \/ resetSystem({4})
    \/ \E i \in Slots : collectObservationsSystem(i)
    \/ \E i \in Slots : computeVisibilitySystem(i, {"all"})

SpecKey == InitKey /\ [][NextKey]_vars

\* Two hiders that face the same cube and lock it, with the invocations of
\* the action system interleaved.
InitRace == SimInit({Config(<<FALSE, FALSE>>, FALSE, <<2, 2>>, <<0, 0>>)}, {0})

NextRace ==
    \/ setAction({NeutralAction, LockAction})
    \/ curEpisodeStep < LevelSteps /\ step
    \/ \E i \in Slots : movementSystem(i)
    \/ \E i \in Slots : actionSystemRead(i)
    \/ \E i \in Slots : actionSystemWrite(i)
    \/ physicsStep({FALSE})
    \/ \E i \in Slots : outputRewardsDonesSystem(i)
    \/ resetSystem({4})
    \/ \E i \in Slots : collectObservationsSystem(i)
    \/ \E i \in Slots : computeVisibilitySystem(i, {"none"})

SpecRace == InitRace /\ [][NextRace]_vars

\* makeAgent has stored past the end of hiders or seekers.  What the
\* program does from there on is undefined, and no step is taken from such
\* a state.
TeamOverflow ==
    Len(tables.hiders) > teamCapacity \/ Len(tables.seekers) > teamCapacity

\* Team-size ranges around the capacity of the team tables, and one
\* configuration that the constructor refuses.
InitTeams ==
    SimInit({Config(<<FALSE, FALSE>>, FALSE, <<h, h>>, <<1, 1>>) : h \in {2, 3, 4, 16}},
            {0})

NextTeams ==
    \/ triggerReset({1})
    \/ (~TeamOverflow /\ (WillReset \/ curEpisodeStep < LevelSteps)) /\ step
    \/ \E i \in Slots : movementSystem(i)
    \/ \E i \in Slots : actionSystem(i, {"none"})
    \/ physicsStep({FALSE})
    \/ \E i \in Slots : outputRewardsDonesSystem(i)
    \/ resetSystem({4})
    \/ \E i \in Slots : collectObservationsSystem(i)
    \/ \E i \in Slots : computeVisibilitySystem(i, {"none"})

SpecTeams == InitTeams /\ [][NextTeams]_vars

---------------------------------------------------------------------------
(* Properties.                                                             *)

\* Slot i holds an agent of the current episode.
Active(i) == iface[i].simE # NoneE

\* outputRewardsDonesSystem has visited slot i in the step under way.
OutputDone(i) == (pc = "rewards" /\ i \notin todo) \/ pc = "reset"

\* C1: with no reset request and IgnoreEpisodeLength unset, the done flag
\* that the rewards system leaves for an active agent is 0 at the ticks
\* 0 .. 238 and 1 at tick 239, and 0 again at tick 0 of the next episode.
C1_DoneFlag ==
    \A i \in Slots :
       Active(i) /\ OutputDone(i) =>
          iface[i].done = IF curEpisodeStep = 239 THEN 1 ELSE 0

\* Slot 0 was active in the episode before: its flag was 1 at tick 239 and
\* is 0 after the output of tick 0 of the second episode.
C1_Witness ==
    /\ curWorldEpisode = 2
    /\ curEpisodeStep = 0
    /\ pc = "reset"
    /\ Active(0)
    /\ iface[0].done = 0

\* Every observation entry and visibility mask of slot i is zero.
AllZero(i) ==
    /\ \A k \in AgentObsIdx : iface[i].agentObs[k] = ZeroObs /\ iface[i].agentVis[k] = 0
    /\ \A k \in BoxIdx : iface[i].boxObs[k] = ZeroObs /\ iface[i].boxVis[k] = 0
    /\ \A k \in RampIdx : iface[i].rampObs[k] = ZeroObs /\ iface[i].rampVis[k] = 0

\* C2: after every tick, each interface slot that is inactive in the
\* current episode has all its agent, box and ramp observation entries and
\* visibility masks zero, also when it was active in an earlier episode.
C2_InactiveZero ==
    pc = "host" =>
       \A i \in Slots : i >= counts.numActiveAgents => AllZero(i)

\* The step from this state is the visit of slot i by the node under way.
VisitOf(i) ==
    i \in todo /\ (IF todo = {i} THEN pc' # pc ELSE todo' = todo \ {i})

\* The body of a seeker in slot i is as makeAgent left it: nothing applied.
Frozen(i) ==
    /\ ent[iface[i].simE].force = ZeroForce
    /\ ent[iface[i].simE].torque = 0
    /\ ent[iface[i].simE].grab = NoneE

\* C3: a lock by an agent of team A on the object its ray hits makes a
\* Dynamic object owned by None Static and owned by A, makes a Static object
\* owned by A Dynamic and owned by None, and leaves a Static object owned by
\* the other team as it is; for A = Hider and for A = Seeker.
C3_LockAsymmetry ==
    [][pc = "action" /\ ray'.l = 1 /\ ray'.hit # NoneE =>
         LET A == iface[ray'.by].agentType
             B == IF A = Hider THEN Seeker ELSE Hider
             old == ent[ray'.hit]
             new == ent'[ray'.hit]
         IN  /\ old.rt = Dynamic /\ old.owner = OwnerNone =>
                   new.rt = Static /\ new.owner = A
             /\ old.rt = Static /\ old.owner = A =>
                   new.rt = Dynamic /\ new.owner = OwnerNone
             /\ old.rt = Static /\ old.owner = B =>
                   new.rt = Static /\ new.owner = B]_vars

\* In level 6 the seeker locked the cube, and the lock of the hider that
\* hit it next left it Static and the seeker's.
C3_Witness ==
    /\ genLevel = 6
    /\ ray.l = 1
    /\ ray.hit # NoneE
    /\ iface[ray.by].agentType = Hider
    /\ ent[ray.hit].rt = Static
    /\ ent[ray.hit].owner = Seeker

\* C4: at the tick indices 0 .. 94 a seeker's action is not applied: no
\* force, torque or grab of its own and no change to any entity or to its
\* action; at tick 95 it is applied.  A hider's action is applied at
\* every tick.
C4_SeekerGate ==
    /\ [](\A i \in Slots :
             Active(i) /\ iface[i].agentType = Seeker /\ curEpisodeStep <= 94 =>
                Frozen(i))
    /\ [][\A i \in Slots :
             Active(i) /\ pc \in {"move", "action"} /\ VisitOf(i) =>
                IF iface[i].agentType = Seeker /\ curEpisodeStep <= 94
                THEN ent' = ent /\ iface' = iface
                ELSE /\ pc = "move" =>
                          /\ ent'[iface[i].simE].force = ForceOf(iface[i].action)
                          /\ ent'[iface[i].simE].torque = TorqueOf(iface[i].action)
                     /\ pc = "action" =>
                          /\ ray'.by = i
                          /\ ray'.l = iface[i].action.l
                          /\ ray'.g = iface[i].action.g
                          /\ iface'[i].action = NeutralAction]_vars

\* The movement of tick 95 has given a seeker a force.
C4_Witness ==
    /\ curEpisodeStep = 95
    /\ pc = "action"
    /\ \E i \in Slots :
          /\ Active(i)
          /\ iface[i].agentType = Seeker
          /\ ent[iface[i].simE].force # ZeroForce

\* C5 (as stated): at every tick index in 0 .. 95 the seekers are frozen
\* and every agent's output reward is exactly 0.
C5_PrepThrough95 ==
    \A i \in Slots :
       Active(i) /\ curEpisodeStep <= 95 =>
          /\ OutputDone(i) => iface[i].reward = 0
          /\ iface[i].agentType = Seeker => Frozen(i)

\* C5 (amended): at every tick index in 0 .. 94 the seekers are frozen and
\* every agent's output reward is exactly 0; tick 95 is the first at
\* which a seeker acts and a reward is not 0.
C5_PrepThrough94 ==
    \A i \in Slots :
       Active(i) /\ curEpisodeStep <= 94 =>
          /\ OutputDone(i) => iface[i].reward = 0
          /\ iface[i].agentType = Seeker => Frozen(i)

\* At tick 95 a seeker has moved and its output reward is not 0.
C5_Witness ==
    /\ curEpisodeStep = 95
    /\ pc = "reset"
    /\ \E i \in Slots :
          /\ Active(i)
          /\ iface[i].agentType = Seeker
          /\ ~Frozen(i)
          /\ iface[i].reward # 0

\* The body of the agent in slot i is outside the arena.
Outside(i) == ent[iface[i].simE].outside

\* C6: the reward written for an agent at the tick indices 0 .. 94 is
\* exactly 0, whatever the shared scalar holds and wherever the agent is;
\* the boundary penalty of 10 is taken off only at the ticks from 95 on.
C6_PrepRewardZero ==
    \A i \in Slots :
       Active(i) /\ OutputDone(i) =>
          /\ curEpisodeStep <= 94 => iface[i].reward = 0
          /\ iface[i].reward \in {1 - 10, (0 - 1) - 10} =>
                curEpisodeStep >= 95 /\ Outside(i)

\* A tick of the preparation phase: the scalar is -1, an agent is outside
\* the arena and its reward has been written 0.
C6_Witness ==
    /\ pc = "reset"
    /\ genLevel # 0
    /\ curEpisodeStep <= 94
    /\ hiderTeamReward = 0 - 1
    /\ \E i \in Slots : Active(i) /\ Outside(i) /\ iface[i].reward = 0

\* The reward of slot i before the boundary penalty.
BeforePenalty(i) == iface[i].reward + (IF Outside(i) THEN 10 ELSE 0)

\* C7: at a tick from 95 on, the reward of a hider and the reward of a
\* seeker, both before the boundary penalty, sum to 0; the shared scalar
\* is not written while the rewards are output.
C7_ZeroSum ==
    /\ [](pc = "reset" /\ curEpisodeStep >= 95 =>
            \A h \in Slots, s \in Slots :
               /\ Active(h) /\ iface[h].agentType = Hider
               /\ Active(s) /\ iface[s].agentType = Seeker
               => BeforePenalty(h) + BeforePenalty(s) = 0)
    /\ [][pc = "rewards" => hiderTeamReward' = hiderTeamReward]_vars

\* A hider seen and outside the arena (-1 - 10) and a seeker inside (+1).
C7_Witness ==
    /\ pc = "reset"
    /\ curEpisodeStep >= 95
    /\ \E h \in Slots, s \in Slots :
          /\ Active(h) /\ iface[h].agentType = Hider /\ iface[h].reward = 0 - 11
          /\ Active(s) /\ iface[s].agentType = Seeker /\ iface[s].reward = 1

\* C9: with IgnoreEpisodeLength unset and no reset request the step index
\* stays within 0 .. 239; a step resets exactly when the index is 239,
\* so an episode is 240 steps, and the index is 0 after the reset.
C9_EpisodeLength ==
    /\ [](curEpisodeStep \in 0 .. 239)
    /\ [][pc = "reset" /\ genLevel # 0 =>
            IF curEpisodeStep = 239
            THEN curEpisodeStep' = 0 /\ curWorldEpisode' = curWorldEpisode + 1
            ELSE /\ curEpisodeStep' = curEpisodeStep + 1
                 /\ curWorldEpisode' = curWorldEpisode
                 /\ ent' = ent /\ tables' = tables]_vars

\* The reset of step 239 of the first episode has run.
C9_Witness ==
    /\ curWorldEpisode = 2
    /\ curEpisodeStep = 0
    /\ pc = "collect"

\* The mask of seeker slot s for the agent in slot h: the outcome of the
\* last visibility check of s on h.
Sees(s, h) == iface[s].agentVis[IF h < s THEN h ELSE h - 1] = 1

SeekerSawHider ==
    \E s \in Slots, h \in Slots :
       /\ s # h
       /\ Active(s) /\ iface[s].agentType = Seeker
       /\ Active(h) /\ iface[h].agentType = Hider
       /\ Sees(s, h)

\* C8: in the CPU build and in the MADRONA_GPU_MODE build alike, after the
\* visibility pass of a tick hiderTeamReward is -1 if the check of some
\* active seeker on some active hider succeeded in that pass, and +1 if
\* none did.
C8_TeamRewardAfterVisibility ==
    pc = "host" => hiderTeamReward = IF SeekerSawHider THEN 0 - 1 ELSE 1

\* C8, the CPU build alone.
C8_CpuPath ==
    pc = "host" /\ ~cfg.gpuMode =>
       hiderTeamReward = IF SeekerSawHider THEN 0 - 1 ELSE 1

\* C10: a non-zero level written into the reset slot before a step is
\* still there when resetSystem runs; resetSystem then generates a new
\* episode, leaves the step index 0 and the slot 0.  With the slot 0 and
\* the step index not 239 it generates nothing and adds 1 to the index.
C10_ExternalReset ==
    /\ [][pc \notin {"host", "reset"} => resetLevel' = resetLevel]_vars
    /\ [][pc = "reset" =>
            /\ resetLevel # 0 =>
                  /\ curEpisodeStep' = 0
                  /\ resetLevel' = 0
                  /\ curWorldEpisode' = curWorldEpisode + 1
                  /\ genLevel' = IF curEpisodeStep = 239 THEN 1 ELSE resetLevel
            /\ resetLevel = 0 /\ curEpisodeStep # 239 =>
                  /\ curEpisodeStep' = curEpisodeStep + 1
                  /\ curWorldEpisode' = curWorldEpisode
                  /\ ent' = ent /\ tables' = tables]_vars

\* The host asked for level 6 and the step has generated it.
C10_Witness ==
    /\ genLevel = 6
    /\ pc = "collect"
    /\ curEpisodeStep = 0
    /\ resetLevel = 0
    /\ curWorldEpisode = 2

\* C11: a reset request carrying a level id k >= 2 makes the reset that
\* serves it generate the debug scene k, at whatever tick index the
\* request is served (239 included); level id 1 generates the training
\* level.
C11_RequestedLevel ==
    [][pc = "reset" /\ resetLevel # 0 =>
         /\ genLevel' = resetLevel
         /\ resetLevel >= 2 => counts'.numActiveBoxes = 0]_vars

\* C11, the tick indices other than 239 alone.
C11_OtherTicks ==
    [][pc = "reset" /\ resetLevel # 0 /\ curEpisodeStep # 239 =>
         genLevel' = resetLevel]_vars

\* C12: a reset destroys every entity that is live when it starts,
\* whatever level generated the episode that ends: no entity of an earlier
\* episode is live when the new level is generated.
C12_ResetDestroysAll ==
    pc = "reset" /\ WillReset => DOMAIN ent \subseteq Destroyed

\* C12, for the resets that end an episode of the training level alone.
C12_AfterTrainingLevel ==
    pc = "reset" /\ WillReset /\ genLevel = 1 => DOMAIN ent \subseteq Destroyed

\* C13: under every configuration the constructor accepts, no episode
\* holds more hiders or more seekers than the team tables have entries (3
\* each), and no more than maxAgents (16) agents in all.
C13_TeamsFitTables ==
    /\ counts.numHiders <= 3
    /\ counts.numSeekers <= 3
    /\ Cardinality({ i \in Slots : Active(i) /\ iface[i].agentType = Hider }) <= 3
    /\ counts.numActiveAgents <= 16


\* C14: in every reachable state the team counters add up to the number of
\* active agents, which is at most maxAgents, and the box and ramp counters
\* stay within maxBoxes and maxRamps.
C14_CountsConsistent ==
    /\ counts.numHiders + counts.numSeekers = counts.numActiveAgents
    /\ counts.numActiveAgents <= maxAgents
    /\ counts.numActiveBoxes <= maxBoxes
    /\ counts.numActiveRamps <= maxRamps

\* The same counters in the worlds whose teams fit the tables.
C14_WithinTables ==
    ~TeamOverflow => C14_CountsConsistent



\* The last generateTrainingEnvironment call has returned.
EpisodeGenerated == pc # "generate" /\ gen.placed # <<>>

\* C15: an episode generated from a key that has generated an episode before
\* draws as many random values and has the same team sizes, box counts and
\* placements as that episode.
C15_SameKeySameEpisode ==
    /\ gen.key \in DOMAIN gen.episodes
    /\ Len(gen.placed) = NumPlaced(gen)
    => Outcome(gen) = gen.episodes[gen.key]

\* The last object of an episode that replays a key has been placed.
C15_Witness ==
    /\ pc = "generate"
    /\ gen.key \in DOMAIN gen.episodes
    /\ Len(gen.placed) = NumPlaced(gen)
    /\ Outcome(gen) = gen.episodes[gen.key]

\* C17 as stated: every placed object was placed after at most 20 sampled
\* candidate poses.
C17_AtMost20Samples ==
    \A k \in DOMAIN gen.placed : gen.placed[k].samples <= 20

\* C17: every placed object was placed after at most 21 sampled candidate
\* poses, of which at most 20 were rejected, whatever the overlap test says.
C17_AtMost21Samples ==
    /\ gen.rejections <= max_rejections
    /\ \A k \in DOMAIN gen.placed : gen.placed[k].samples <= max_rejections + 1

\* An object placed with its 21st candidate, which overlaps.
C17_Witness ==
    \E k \in DOMAIN gen.placed :
        gen.placed[k].samples = max_rejections + 1 /\ ~gen.placed[k].clear

\* The cells of the static geometry of the episode.
WallCells == { gen.all_entities[k] : k \in 1 .. NumWalls }

\* C18: an object placed before its rejection budget is exhausted overlaps
\* neither the static geometry nor any object placed before it, agents
\* included.
C18_NoOverlapWithEarlier ==
    \A k \in DOMAIN gen.placed :
        gen.placed[k].samples <= max_rejections =>
            /\ gen.placed[k].cell \notin WallCells
            /\ \A j \in 1 .. (k - 1) : gen.placed[j].cell # gen.placed[k].cell

\* The same for the earlier objects that are not agents.
C18_NoOverlapWithObstacles ==
    \A k \in DOMAIN gen.placed :
        gen.placed[k].samples <= max_rejections =>
            /\ gen.placed[k].cell \notin WallCells
            /\ \A j \in 1 .. (k - 1) :
                  gen.placed[j].kind \notin {"Hider", "Seeker"}
                  => gen.placed[j].cell # gen.placed[k].cell

C19_AboveThree ==
    EpisodeGenerated /\ gen.total_num_boxes > 3 =>
        /\ gen.total_num_boxes \in 4 .. maxBoxes
        /\ 3 <= gen.num_elongated /\ gen.num_elongated < gen.total_num_boxes
        /\ counts.numActiveBoxes = gen.total_num_boxes


\* Every generation of an episode that has begun comes to its end.
C17_Terminates == (pc = "generate") ~> (pc = "collect")


\* C16: once the action system has visited every agent in a tick, the
\* action record of every active agent is neutral.
C16_ActionConsumed ==
    pc = "physics" =>
        \A i \in Slots : Active(i) => iface[i].action = NeutralAction

\* The same for the active agents that the action system does not gate.
C16_UngatedConsumed ==
    pc = "physics" =>
        \A i \in Slots :
            Active(i) /\ ~SeekerGated(iface[i].agentType)
            => iface[i].action = NeutralAction


\* Mobility and ownership of entity e are coupled.
Coupled(e) ==
    ent[e].owner # Unownable =>
        \/ ent[e].rt = Dynamic /\ ent[e].owner = OwnerNone
        \/ ent[e].rt = Static /\ ent[e].owner \in {Hider, Seeker}

\* C20: in every state of every level an object that is not Unownable is
\* Dynamic with owner None or Static with owner Hider or Seeker.
C20_MobilityOwnership ==
    \A e \in DOMAIN ent : Coupled(e)

\* The same in the levels other than the debug scene of level 8.
C20_ExceptLevel8 ==
    genLevel # 8 => \A e \in DOMAIN ent : Coupled(e)

\* Outside resetSystem, which replaces the objects, an object changes its
\* mobility only in the action system, by the lock of an agent: to Static
\* owned by the agent's team, or back to Dynamic and owner None from Static
\* owned by the agent's team.
C20_LockTransitions ==
    [][\A e \in DOMAIN ent \cap DOMAIN ent' :
          (pc # "reset" /\ (ent'[e].rt # ent[e].rt \/ ent'[e].owner # ent[e].owner)) =>
              /\ pc = "action" /\ pc' \in {"action", "physics"}
              /\ ray'.l = 1 /\ ray'.hit = e
              /\ \/ /\ ent[e].rt = Dynamic /\ ent[e].owner = OwnerNone
                    /\ ent'[e].rt = Static
                    /\ ent'[e].owner = iface[ray'.by].agentType
                 \/ /\ ent[e].rt = Static
                    /\ ent[e].owner = iface[ray'.by].agentType
                    /\ ent'[e].rt = Dynamic /\ ent'[e].owner = OwnerNone]_vars


\* The live constraint entities and the live agent bodies of E.
Joints(E) == { j \in DOMAIN E : E[j].arch = "Joint" }
Agents(E) == { a \in DOMAIN E : E[a].arch = "DynAgent" }

\* Every grab link of E names a live constraint, and every live constraint
\* is named by the link of exactly one live agent and joins that agent to a
\* live object.
ConstraintsOwned(E) ==
    /\ \A a \in Agents(E) : E[a].grab # NoneE => E[a].grab \in Joints(E)
    /\ \A j \in Joints(E) :
          /\ Cardinality({ a \in Agents(E) : E[a].grab = j }) = 1
          /\ E[j].a \in Agents(E) /\ E[E[j].a].grab = j
          /\ E[j].b \in Bodies(E)

\* C21: after every step the constraints are owned as above; a grab intent
\* of an agent that holds a constraint destroys that constraint and creates
\* none; and the state a reset leaves has no constraint.
C21_GrabConstraints ==
    [][/\ ConstraintsOwned(ent')
       /\ (pc = "action" /\ ray'.by \in todo /\ ray'.g = 1
           /\ ent[iface[ray'.by].simE].grab # NoneE)
          => /\ ent'[iface[ray'.by].simE].grab = NoneE
             /\ Joints(ent') = Joints(ent) \ {ent[iface[ray'.by].simE].grab}
       /\ (pc = "reset" /\ WillReset) => Joints(ent') = {}]_vars

\* The hider and the seeker each hold a constraint in an episode that
\* followed a reset by the host.
C21_Witness ==
    /\ curWorldEpisode >= 2
    /\ \E h, s \in Agents(ent) :
          /\ h # s
          /\ ent[h].grab # NoneE /\ ent[s].grab # NoneE



\* C22: the object that a live constraint attaches is Dynamic and has
\* owner None.
C22_GrabbedIsDynamic ==
    \A j \in Joints(ent) :
        ent[ent[j].b].rt = Dynamic /\ ent[ent[j].b].owner = OwnerNone

\* A constraint is created only on a Dynamic object with owner None.
C22_CreatedOnDynamic ==
    [][\A j \in Joints(ent') \ Joints(ent) :
          /\ ent[ent'[j].b].rt = Dynamic /\ ent[ent'[j].b].owner = OwnerNone
          /\ ent'[ent'[j].b].rt = Dynamic /\ ent'[ent'[j].b].owner = OwnerNone]_vars


\* The stage of the pipeline a node belongs to; the observation systems
\* depend on the reset only and form one stage.
Stage(p) ==
    CASE p = "move" -> "movement"
      [] p = "action" -> "interaction"
      [] p = "physics" -> "physics"
      [] p = "rewards" -> "reward"
      [] p \in {"reset", "generate"} -> "reset"
      [] p \in {"collect", "vis"} -> "observation"
      [] OTHER -> "host"

\* The nodes that run once per agent slot.
PerAgent == {"move", "action", "rewards", "collect", "vis"}

\* Every stage is left only when all its slots have been visited, and the
\* stage that follows is the one that order names.
StagesFollow(order) ==
    pc' # pc =>
        /\ pc \in PerAgent => Cardinality(todo) = 1
        /\ Stage(pc') # Stage(pc) => <<Stage(pc), Stage(pc')>> \in order

Mobility(E) == [e \in Bodies(E) |-> <<E[e].rt, E[e].owner>>]

\* The orders in which the invocations of one node can run one by one.
Orders == { o \in [1 .. Cardinality(Slots) -> Slots] :
              \A j, k \in 1 .. Cardinality(Slots) : o[j] = o[k] => j = k }

\* The entities after the invocations of order o, from position k on, have
\* run one after the other on E with the action records acts.
RECURSIVE SerialRun(_, _, _, _)
SerialRun(E, acts, o, k) ==
    IF k > Len(o) THEN E
    ELSE LET row == iface[o[k]]
             hit == CHOOSE h \in RayHits(row.simE, RaceReach) : TRUE
             locked == IF acts[o[k]].l = 1 THEN lock(E, hit, row.agentType) ELSE E
             after == IF acts[o[k]].g = 1 THEN grab(locked, row.simE, hit) ELSE locked
         IN  SerialRun(IF row.simE = NoneE \/ SeekerGated(row.agentType)
                       THEN E ELSE after,
                       acts, o, k + 1)

\* C24: when the action system has run for every agent, mobility and
\* ownership of every object are what the invocations, run one by one in
\* some order, produce.
C24_Serializable ==
    pc = "physics" =>
        \E o \in Orders :
            Mobility(ent) = Mobility(SerialRun(frame.ent0, frame.act0, o, 1))


\* C25: a reset without fixed world and without checkpoint load installs
\* the key (episode counter before the reset, world index), a key no such
\* reset of the world has installed before, and adds 1 to the counter; a
\* reset that loads a checkpoint installs the key of the checkpoint and
\* keeps the counter; with the fixed-world flag every reset installs (0, 0)
\* and keeps the counter.
C25_EpisodeKey ==
    [][(pc = "reset" /\ WillReset) =>
          /\ (~cfg.useFixedWorld /\ rnd.load = 0) =>
                /\ rnd'.curEpisodeRNDCounter = <<curWorldEpisode, rnd.worldID>>
                /\ rnd'.curEpisodeRNDCounter \notin rnd.issued
                /\ curWorldEpisode' = curWorldEpisode + 1
          /\ (~cfg.useFixedWorld /\ rnd.load = 1) =>
                /\ rnd'.curEpisodeRNDCounter = rnd.initRNDCounter
                /\ curWorldEpisode' = curWorldEpisode
          /\ cfg.useFixedWorld =>
                /\ rnd'.curEpisodeRNDCounter = <<0, 0>>
                /\ curWorldEpisode' = curWorldEpisode]_vars

\* Two episodes with keys of the counter, then one with the key of a checkpoint.
C25_Witness ==
    /\ ~cfg.useFixedWorld
    /\ rnd.worldID = 1
    /\ Cardinality(rnd.issued) >= 2
    /\ rnd.load = 1
    /\ rnd.curEpisodeRNDCounter = <<7, 0>>
    /\ curWorldEpisode = 2


\* The masks of row r.
Masks(r) == <<r.agentVis, r.boxVis, r.rampVis>>

\* The masks that describe, entry by entry, the entities whose relative
\* observations collectObservationsSystem stores for slot i, when the
\* entities of visible are the visible ones.
MasksFor(i, visible) ==
    <<[k \in AgentObsIdx |->
         IF k < counts.numActiveAgents - 1 THEN Vis(visible, iface[OtherAt(i, k)].simE)
         ELSE 0],
      [k \in BoxIdx |->
         IF k < counts.numActiveBoxes THEN Vis(visible, tables.boxes[k + 1]) ELSE 0],
      [k \in RampIdx |->
         IF k < counts.numActiveRamps THEN Vis(visible, tables.ramps[k + 1]) ELSE 0]>>

\* C26: in the CPU and in the GPU path, the visibility pass of an active
\* agent writes no mask entry outside the agent's own masks, and afterwards
\* entry j of each mask is the visibility of the entity observed at entry j,
\* with 0 in every slot at or beyond the active count.
C26_MasksAligned ==
    [][(pc = "vis" /\ todo' # todo) =>
          \A i \in todo \ todo' :
             iface[i].simE # NoneE =>
                /\ \A s \in Slots \ {i} : Masks(iface'[s]) = Masks(iface[s])
                /\ Masks(iface'[i]) = MasksFor(i, seen')]_vars


\* C27: whatever level a reset generates, the number of active agents stays
\* within maxAgentsPerWorld and makeAgent has only used slots of
\* agentInterfaces that the constructor allocated.
C27_AgentsWithinSlots ==
    /\ counts.numActiveAgents <= maxAgentsPerWorld
    /\ ~badSlot


\* C28: a slot that a reset leaves inactive has done flag 0 and reward 0,
\* and keeps them for as long as it stays inactive.
C28_InactiveDoneReward ==
    [][\A i \in Slots :
          (/\ iface'[i].simE = NoneE
           /\ \/ iface[i].simE # NoneE
              \/ iface[i].done = 0 /\ iface[i].reward = 0)
          => iface'[i].done = 0 /\ iface'[i].reward = 0]_vars


\* The exported prep counter of an active slot: numPrepSteps after a reset,
\* then one less per step down to 0, where it stays.
PrepCountsDown ==
    \A i \in todo \ todo' :
       (pc = "collect" /\ iface[i].simE # NoneE) =>
          iface'[i].prep = IF curEpisodeStep = 0 THEN numPrepSteps
                           ELSE IF iface[i].prep > 0 THEN iface[i].prep - 1
                           ELSE 0

\* The movement system gives a seeker the force of its action only in a
\* step that the exported prep counter 0 precedes.
SeekerMovesAtZero ==
    \A i \in todo \ todo' :
       (/\ pc = "move"
        /\ iface[i].simE # NoneE
        /\ iface[i].agentType = Seeker
        /\ ent'[iface[i].simE] # ent[iface[i].simE])
       => iface[i].prep = 0

\* C29: the exported prep counter starts at 96 after a reset and counts
\* down by 1 per step to 0, and a step applies a seeker's action only when
\* the prep counter exported before the step is 0.
C29_PrepAgreesWithGate == [][PrepCountsDown /\ SeekerMovesAtZero]_vars

\* The counter part of C29 alone.
C29_PrepCountsDown == [][PrepCountsDown]_vars


\* C30: once globalPositionsDebugSystem has run in a step, the agent part
\* of the snapshot holds the positions of the hiders, then of the seekers,
\* and (0, 0) in every slot from numHiders + numSeekers up to maxAgents.
C30_AgentPositions ==
    globalPositions.at = Now =>
        LET placed == tables.hiders \o tables.seekers
        IN  \A k \in 0 .. (maxAgents - 1) :
               globalPositions.agentPositions[k] =
                  IF k < Len(placed) THEN placed[k + 1] ELSE NoneE

=============================================================================
